---------------------------- MODULE Spec2Model ----------------------------
(***************************************************************************)
(* A model of WebsiteTrafficAnalyzer (src/website_traffic_analyzer.py):    *)
(* the analyzer object's table (self.data) and path (self.data_file), the  *)
(* wall clock read by generate_sample_data, and the stream numpy produces  *)
(* after np.random.seed(42).  What the file holds is an input of           *)
(* load_data.                                                              *)
(*                                                                         *)
(* A pandas table is a record [kind, rows, tsDtype, cols]: rows is the     *)
(* sequence of row records, tsDtype the dtype of the timestamp/date        *)
(* columns ("datetime64" after pd.to_datetime, "object" after read_csv),   *)
(* cols says whether the derived day_of_week column has been appended.     *)
(* An instant is a record [day, hour, minute, second]; day counts days     *)
(* from a Monday, so that weekday() is day % 7.  A user_id "user_i" is the *)
(* number i, a session_id the tuple of the parts its text is built from.   *)
(*                                                                         *)
(* The seeded generator is modelled as what a seed fixes: the outcome of   *)
(* every draw is a function of the draws requested so far.  seed42 holds   *)
(* the request/outcome traces already observed; a later call that makes    *)
(* the same requests gets the same outcomes, and a first request gets any  *)
(* outcome of the sampled sets below.  A trace has one entry per iteration *)
(* of the hour loop: the Poisson mean requested and the draws of the       *)
(* visits of that hour.  Chart rendering (matplotlib) is an external       *)
(* collaborator and is not modelled.                                       *)
(***************************************************************************)
EXTENDS Integers, Sequences, FiniteSets, TLC

VARIABLES data,       \* self.data
          data_file,  \* self.data_file
          clock,      \* datetime.now()
          seed42,     \* traces of the stream seeded by np.random.seed(42)
          origin,     \* history: how self.data was last populated
          last_gen,   \* history: the days and the visits of the latest generation
          ticks,      \* how often the clock has advanced
          out         \* outcome of the latest call

vars == <<data, data_file, clock, seed42, origin, last_gen, ticks, out>>

----------------------------------------------------------------------------
(* Program constants                                                       *)

pages == <<"/home", "/products", "/about", "/contact", "/blog",
           "/pricing", "/signup", "/login", "/support", "/faq">>

sources == <<"Google", "Direct", "Facebook", "Twitter", "Email",
             "LinkedIn", "Bing", "Instagram", "Referral", "Other">>

devices == <<"Desktop", "Mobile", "Tablet">>

countries == <<"United States", "United Kingdom", "Canada", "Germany",
               "France", "Australia", "India", "Japan", "Brazil", "Mexico">>

NumUserIds == 1000

HoursPerDay == 24

BaseVisits == 20

PageSpacingMinutes == 2

CandidateCut == 5

SuffixLow == 1000

SuffixHigh == 9999

MaxNumPages == 6

----------------------------------------------------------------------------
(* Bounds: the sampled outcomes of the random draws and of the clock       *)

\* the clock starts a second before midnight, on a Wednesday or on a Sunday
StartClocks == { [day |-> 2, hour |-> 23, minute |-> 59, second |-> 59],
                 [day |-> 6, hour |-> 23, minute |-> 59, second |-> 59] }

\* how many times the clock advances (by one second) in a behaviour
MaxTicks == 1

\* the days arguments tried
DaysInputs == {1}

\* np.random.poisson yields visits only in these hours, and there this many
SampledHours == {23}

VisitCounts == {1, 2}

SampledUsers == {1, 2}

SampledSuffixes == {1000, 1001}

SampledMinutes == {59}

SampledSources == {"Google", "Direct"}

SampledDevices == {"Desktop"}

SampledCountries == {"United States"}

SampledNumPages == {1, 2}

\* outcomes of the 70% coin that sends a visit to /home first
SampledHomeCoin == {"hit"}

\* outcomes of np.random.choice(pages) for the first page
SampledFirstPages == {"/products"}

\* outcomes (index into the candidate list) of the later np.random.choice
SampledPicks == {1}

\* outcomes of int(np.random.gamma(2.0, 30.0))
SampledGamma == {45}

----------------------------------------------------------------------------
(* Helpers                                                                 *)

Range(s) == { s[i] : i \in DOMAIN s }

Last(s) == s[Len(s)]

Take(s, n) == SubSeq(s, 1, IF Len(s) < n THEN Len(s) ELSE n)

RECURSIVE Flatten(_)
Flatten(ss) == IF ss = <<>> THEN <<>> ELSE Head(ss) \o Flatten(Tail(ss))

RECURSIVE SumOver(_, _)
SumOver(f, S) ==
    IF S = {} THEN 0
    ELSE LET x == CHOOSE y \in S : TRUE IN f[x] + SumOver(f, S \ {x})

None == [kind |-> "None"]

IsNone(d) == d.kind = "None"

----------------------------------------------------------------------------
(* datetime                                                                *)

\* date.weekday(): 0 = Monday ... 6 = Sunday
Weekday(day) == day % 7

\* datetime + timedelta(minutes = m)
AddMinutes(ts, m) ==
    LET total == ts.minute + m
        hours == ts.hour + (total \div 60)
    IN  [day |-> ts.day + (hours \div HoursPerDay), hour |-> hours % HoursPerDay,
         minute |-> total % 60, second |-> ts.second]

\* datetime - timedelta(days = n) + timedelta(days = i)
DateRange(now, days) ==
    [i \in 1..days |-> [now EXCEPT !.day = now.day - days + (i - 1)]]

\* chronological order of two instants (also the order of their ISO text)
TsLess(a, b) ==
    \/ a.day < b.day
    \/ a.day = b.day /\ a.hour < b.hour
    \/ a.day = b.day /\ a.hour = b.hour /\ a.minute < b.minute
    \/ a.day = b.day /\ a.hour = b.hour /\ a.minute = b.minute /\ a.second < b.second

----------------------------------------------------------------------------
(* generate_sample_data                                                    *)

\* 100 * visits_factor for an hour of a date
VisitsFactor(date, hour) ==
    LET base == IF 9 <= hour /\ hour <= 17 THEN 150
                ELSE IF 18 <= hour /\ hour <= 22 THEN 120
                ELSE 50
    IN  IF Weekday(date.day) >= 5 THEN (base * 7) \div 10 ELSE base

\* 100 * the mean handed to np.random.poisson
PoissonMean(date, hour) == BaseVisits * VisitsFactor(date, hour)

\* f"session_{date.strftime('%Y%m%d')}_{hour}_{n}": the text determines and is
\* determined by the date, the hour and the four-digit number
SessionId(date, hour, n) == <<"session", date.day, hour, n>>

\* date.replace(hour=hour, minute=minute): seconds are those of the clock
SessionStart(date, hour, minute) ==
    [date EXCEPT !.hour = hour, !.minute = minute]

\* [p for p in pages if p not in viewed_pages][:5]
Candidates(viewed) ==
    Take(SelectSeq(pages, LAMBDA p : p \notin Range(viewed)), CandidateCut)

\* the page of view i (0-based) given the pages viewed so far and its draws
PageOf(i, viewed, first_page, d) ==
    IF i = 0 THEN first_page
    ELSE IF Last(viewed) = "/products" /\ d.flip = "hit" THEN "/signup"
    ELSE IF Last(viewed) = "/pricing" /\ d.flip = "hit" THEN "/signup"
    ELSE Candidates(viewed)[d.pick]

\* the first page: '/home' when source != 'Direct' and random() < 0.7
FirstPage(dr) ==
    IF dr.source # "Direct" /\ dr.home = "hit" THEN "/home" ELSE dr.first

\* PageTimestamp with the views spaced by hours: timedelta(hours=i*2)
PageTimestampInHours(session_start, i) ==
    AddMinutes(session_start, i * PageSpacingMinutes * 60)

\* timestamp of view i of a session
PageTimestamp(session_start, i) == AddMinutes(session_start, i * PageSpacingMinutes)

\* the rows of views i .. num_pages-1 of one session
RECURSIVE PageRows(_, _, _, _)
PageRows(i, viewed, converted, s) ==
    IF i = s.num_pages THEN <<>>
    ELSE LET d == s.draws[i + 1]
             page == PageOf(i, viewed, s.first_page, d)
             time_on_page == IF i < s.num_pages - 1 THEN d.gamma ELSE 0
             conv == IF page = "/signup" /\ d.conv = "hit" THEN TRUE ELSE converted
             timestamp == PageTimestamp(s.session_start, i)
             row == [timestamp |-> timestamp,
                     date |-> [timestamp EXCEPT !.hour = 0, !.minute = 0, !.second = 0],
                     hour |-> timestamp.hour,
                     user_id |-> s.user_id,
                     session_id |-> s.session_id,
                     page |-> page,
                     time_on_page |-> time_on_page,
                     source |-> s.source,
                     device |-> s.device,
                     country |-> s.country,
                     is_bounce |-> s.is_bounce,
                     converted |-> conv]
         IN  <<row>> \o PageRows(i + 1, Append(viewed, page), conv, s)

\* the rows of one visit of an hour of a date, from the visit's draws
SessionRows(date, hour, dr) ==
    PageRows(0, <<>>, FALSE,
             [user_id |-> dr.user,
              session_id |-> SessionId(date, hour, dr.suffix),
              session_start |-> SessionStart(date, hour, dr.minute),
              source |-> dr.source,
              device |-> dr.device,
              country |-> dr.country,
              num_pages |-> dr.num_pages,
              is_bounce |-> (dr.num_pages = 1),
              first_page |-> FirstPage(dr),
              draws |-> dr.pages])


\* the draws of view i of a session of n views, given the pages viewed so far:
\* the 40%/30% signup coin (only after /products or /pricing), the choice among
\* the candidates (only if the coin missed), the gamma time (not for the last
\* view) and the 20% conversion coin (only on /signup)
StepDraws(i, n, viewed, first_page) ==
    { d \in [flip : {"hit", "miss", "skip"}, pick : {0} \cup SampledPicks,
             gamma : {0} \cup SampledGamma, conv : {"hit", "miss", "skip"}] :
        /\ (d.flip # "skip") <=> (i > 0 /\ Last(viewed) \in {"/products", "/pricing"})
        /\ (d.pick # 0) <=> (i > 0 /\ d.flip # "hit")
        /\ (d.gamma # 0) <=> (i < n - 1)
        /\ (d.conv # "skip") <=> (PageOf(i, viewed, first_page, d) = "/signup") }

\* the draws of views i .. n-1
RECURSIVE PageDraws(_, _, _, _)
PageDraws(i, n, viewed, first_page) ==
    IF i = n THEN {<<>>}
    ELSE UNION { { <<d>> \o rest :
                     rest \in PageDraws(i + 1, n,
                                 Append(viewed, PageOf(i, viewed, first_page, d)),
                                 first_page) } :
                 d \in StepDraws(i, n, viewed, first_page) }

\* the draws of one visit, in the order the loop body makes them; a draw the
\* code does not make is "skip"
SessionDraws ==
    UNION { { [h EXCEPT !.pages = ps] : ps \in PageDraws(0, h.num_pages, <<>>, FirstPage(h)) } :
            h \in { x \in [user : SampledUsers, suffix : SampledSuffixes,
                           minute : SampledMinutes, source : SampledSources,
                           device : SampledDevices, country : SampledCountries,
                           num_pages : SampledNumPages,
                           home : {"skip"} \cup SampledHomeCoin,
                           first : {"skip"} \cup SampledFirstPages,
                           pages : {<<>>}] :
                      /\ x.user \in 1..NumUserIds
                      /\ x.suffix \in SuffixLow..(SuffixHigh - 1)
                      /\ x.minute \in 0..59
                      /\ x.num_pages \in 1..MaxNumPages
                      /\ (x.home # "skip") <=> (x.source # "Direct")
                      /\ (x.first # "skip") <=> (x.home # "hit") } }

\* the visits of one hour: num_visits draws of a session
VisitPlans == UNION { [1..n -> SessionDraws] : n \in VisitCounts }

\* the date and hour of the k-th iteration of the hour loop
SlotDate(now, days, k) == DateRange(now, days)[((k - 1) \div HoursPerDay) + 1]

SlotHour(k) == (k - 1) % HoursPerDay

\* the means requested from np.random.poisson, in order
PoissonRequests(now, days) ==
    [k \in 1..(HoursPerDay * days) |->
        PoissonMean(SlotDate(now, days, k), SlotHour(k))]

\* two traces of one seeded stream: they agree until they request differently
Consistent(r, m) ==
    LET common == 1..(IF Len(r) < Len(m) THEN Len(r) ELSE Len(m))
        diff == { k \in common : r[k] # m[k] }
    IN  \/ diff = {}
        \/ LET k == CHOOSE j \in diff : \A l \in diff : j <= l
           IN  r[k].lam # m[k].lam

\* the traces a call may observe: the one already observed for these requests,
\* or else any trace consistent with those observed
Traces(seen, lams) ==
    LET n == Len(lams)
        known == { m \in seen : Len(m) >= n /\ \A k \in 1..n : m[k].lam = lams[k] }
        busy == { k \in 1..n : SlotHour(k) \in SampledHours }
    IN  IF known # {} THEN { SubSeq(m, 1, n) : m \in known }
        ELSE { r \in { [k \in 1..n |-> [lam |-> lams[k],
                                         visits |-> IF k \in busy THEN f[k] ELSE <<>>]] :
                       f \in [busy -> VisitPlans] } :
               \A m \in seen : Consistent(r, m) }

\* records, in the order the loops append them
Records(now, days, r) ==
    Flatten([k \in 1..Len(r) |->
        Flatten([v \in 1..Len(r[k].visits) |->
            SessionRows(SlotDate(now, days, k), SlotHour(k), r[k].visits[v])])])

\* pd.DataFrame(records) with timestamp and date converted by pd.to_datetime
DataFrame(records) ==
    [kind |-> "DataFrame", rows |-> records, tsDtype |-> "datetime64", cols |-> "base"]

NumVisits(r) == SumOver([k \in 1..Len(r) |-> Len(r[k].visits)], 1..Len(r))

Outcome(op) ==
    [op |-> op, time_unit |-> "", days |-> 0, notice |-> "", raised |-> "",
     ret |-> None]

GenerateSampleData(days) ==
    /\ \E r \in Traces(seed42, PoissonRequests(clock, days)) :
         /\ seed42' = { m \in seed42 : ~(Len(m) <= Len(r) /\ m = SubSeq(r, 1, Len(m))) }
                         \cup {r}
         /\ data' = DataFrame(Records(clock, days, r))
         /\ last_gen' = [days |-> days, visits |-> NumVisits(r)]
    /\ origin' = "generated"
    /\ out' = [Outcome("generate_sample_data") EXCEPT
                 !.days = days, !.ret = [kind |-> "self.data"]]
    /\ UNCHANGED <<data_file, clock, ticks>>

----------------------------------------------------------------------------
(* load_data, save_data                                                    *)

Missing == [kind |-> "missing"]

Malformed == [kind |-> "malformed"]

HeaderOnly == [kind |-> "csv", rows |-> <<>>, cols |-> "base"]

\* a table this program saved earlier: a bounce, and a two-page session that
\* signs up, both of the last hour of a Tuesday
SavedEarlier ==
    LET date == [day |-> 1, hour |-> 8, minute |-> 15, second |-> 30]
        visit == [user |-> 1, suffix |-> 1000, minute |-> 59, source |-> "Direct",
                  device |-> "Desktop", country |-> "United States",
                  home |-> "skip", first |-> "/products"]
        bounce == [visit EXCEPT !.suffix = 1001] @@
                  [num_pages |-> 1,
                   pages |-> << [flip |-> "skip", pick |-> 0, gamma |-> 0, conv |-> "skip"] >>]
        signup == visit @@
                  [num_pages |-> 2,
                   pages |-> << [flip |-> "skip", pick |-> 0, gamma |-> 45, conv |-> "skip"],
                                [flip |-> "hit", pick |-> 0, gamma |-> 0, conv |-> "hit"] >>]
    IN  [kind |-> "csv", cols |-> "base",
         rows |-> SessionRows(date, 23, bounce) \o SessionRows(date, 23, signup)]

\* DataFrame.to_csv(filename, index=False): the rows as text
ToCsv(d) == [kind |-> "csv", rows |-> d.rows, cols |-> d.cols]

\* pd.read_csv: timestamps and dates stay text (dtype object)
ReadCsv(content) ==
    [kind |-> "DataFrame", rows |-> content.rows, tsDtype |-> "object",
     cols |-> content.cols]

\* whether pd.read_csv(path) raises: no path, no file, rows that do not parse
ReadFails(path, content) ==
    path = "None" \/ content.kind \in {"missing", "malformed"}

\* LoadedData with the table unset by a failing read
LoadedDataUnsetOnFailure(path, content, before) ==
    IF ReadFails(path, content) THEN None ELSE ReadCsv(content)

\* LoadedData with the table set to an empty frame by a failing read
LoadedDataEmptyOnFailure(path, content, before) ==
    IF ReadFails(path, content) THEN ReadCsv(HeaderOnly) ELSE ReadCsv(content)

\* self.data after load_data, given what it was before
LoadedData(path, content, before) ==
    IF ReadFails(path, content) THEN before ELSE ReadCsv(content)

\* what the file self.data_file names may hold when load_data reads it
FileContents(path) ==
    IF path = "None" THEN {Missing}
    ELSE {Missing, Malformed, HeaderOnly, SavedEarlier}

LoadData(content) ==
    /\ data' = LoadedData(data_file, content, data)
    /\ origin' = IF ReadFails(data_file, content) THEN origin ELSE "loaded"
    /\ out' = [Outcome("load_data") EXCEPT
                 !.notice = IF ReadFails(data_file, content) THEN "Error loading data"
                            ELSE "Data loaded successfully",
                 !.ret = [kind |-> "bool", value |-> ~ReadFails(data_file, content)]]
    /\ UNCHANGED <<data_file, clock, ticks, seed42, last_gen>>

\* save_data writes to filename (never read back here) and returns None
SaveData(filename) ==
    /\ out' = IF IsNone(data)
              THEN [Outcome("save_data") EXCEPT !.notice = "No data to save"]
              ELSE [Outcome("save_data") EXCEPT
                      !.notice = "Data saved",
                      !.ret = [kind |-> "None", filename |-> filename,
                               written |-> ToCsv(data)]]
    /\ UNCHANGED <<data, data_file, clock, ticks, seed42, origin, last_gen>>

----------------------------------------------------------------------------
(* Reports                                                                 *)

NoData == "No data available. Please load or generate data first."

NoDataOutcome(op) == [Outcome(op) EXCEPT !.notice = NoData]

\* the values of a column
Column(rows, c) == { rows[i][c] : i \in DOMAIN rows }

\* drop_duplicates('session_id'): the index of the first row of each session
FirstRows(rows) ==
    { i \in DOMAIN rows : \A j \in DOMAIN rows :
         rows[j].session_id = rows[i].session_id => i <= j }

\* groupby('session_id')[c].max() for a boolean column
SessionMax(rows, c) ==
    [sid \in Column(rows, "session_id") |->
        \E i \in DOMAIN rows : rows[i].session_id = sid /\ rows[i][c]]

\* groupby('session_id')['time_on_page'].sum(), summed over the sessions
TotalTime(rows) == SumOver([i \in DOMAIN rows |-> rows[i].time_on_page], DOMAIN rows)

\* the eight values basic_metrics returns; a ratio is [num, den]
Metrics(rows) ==
    LET total_pageviews == Len(rows)
        unique_visitors == Cardinality(Column(rows, "user_id"))
        unique_sessions == Cardinality(Column(rows, "session_id"))
        bounce_sessions == Cardinality({ i \in FirstRows(rows) : rows[i].is_bounce })
        converted_sessions ==
            Cardinality({ sid \in Column(rows, "session_id") :
                            SessionMax(rows, "converted")[sid] })
    IN  [kind |-> "dict",
         total_pageviews |-> total_pageviews,
         unique_visitors |-> unique_visitors,
         unique_sessions |-> unique_sessions,
         pages_per_session |-> [num |-> total_pageviews, den |-> unique_sessions],
         sessions_per_visitor |-> [num |-> unique_sessions, den |-> unique_visitors],
         bounce_rate |-> [num |-> bounce_sessions * 100, den |-> unique_sessions],
         conversion_rate |-> [num |-> converted_sessions * 100, den |-> unique_sessions],
         avg_session_duration |-> [num |-> TotalTime(rows), den |-> unique_sessions]]

\* the outcome of basic_metrics on self.data = d
BasicMetricsOutcome(d) ==
    IF IsNone(d) THEN NoDataOutcome("basic_metrics")
    ELSE IF Cardinality(Column(d.rows, "user_id")) = 0
         THEN [Outcome("basic_metrics") EXCEPT !.raised = "ZeroDivisionError"]
    ELSE [Outcome("basic_metrics") EXCEPT !.ret = Metrics(d.rows)]

BasicMetrics ==
    /\ out' = BasicMetricsOutcome(data)
    /\ UNCHANGED <<data, data_file, clock, ticks, seed42, origin, last_gen>>

DayNames == <<"Monday", "Tuesday", "Wednesday", "Thursday", "Friday",
              "Saturday", "Sunday">>

\* the value a row is grouped by: its date, its hour, or
\* timestamp.dt.day_name()
GroupKey(row, time_unit) ==
    IF time_unit = "day" THEN row.date.day
    ELSE IF time_unit = "hour" THEN row.hour
    ELSE DayNames[Weekday(row.timestamp.day) + 1]

\* groupby(key)['session_id'].nunique(): distinct sessions per value of the key
SessionsBy(rows, time_unit) ==
    [g \in { GroupKey(rows[i], time_unit) : i \in DOMAIN rows } |->
        Cardinality({ rows[i].session_id :
                        i \in { j \in DOMAIN rows : GroupKey(rows[j], time_unit) = g } })]

\* the series traffic_over_time hands to the plot; none for another time_unit
TrafficSeries(d, time_unit) ==
    IF time_unit \in {"day", "hour", "day_of_week"} THEN SessionsBy(d.rows, time_unit)
    ELSE <<>>

\* the .dt accessor raises on a column that is not datetime-like
DtRaises(d, time_unit) == time_unit = "day_of_week" /\ d.tsDtype # "datetime64"

TrafficOutcome(d, time_unit) ==
    IF IsNone(d) THEN [NoDataOutcome("traffic_over_time") EXCEPT !.time_unit = time_unit]
    ELSE IF DtRaises(d, time_unit)
         THEN [Outcome("traffic_over_time") EXCEPT
                 !.time_unit = time_unit, !.raised = "AttributeError"]
    ELSE [Outcome("traffic_over_time") EXCEPT
            !.time_unit = time_unit,
            !.ret = [kind |-> "None", plotted |-> TrafficSeries(d, time_unit)]]

TimeUnits == {"day", "hour", "day_of_week", "week"}

TrafficOverTime(time_unit) ==
    /\ out' = TrafficOutcome(data, time_unit)
    /\ data' = IF ~IsNone(data) /\ time_unit = "day_of_week" /\ ~DtRaises(data, time_unit)
               THEN [data EXCEPT !.cols = "day_of_week"]
               ELSE data
    /\ UNCHANGED <<data_file, clock, ticks, seed42, origin, last_gen>>

\* per source, over the first row of each session: the session count, the
\* bounced sessions and the converted sessions
SourceSummary(rows) ==
    LET first == FirstRows(rows)
    IN  [src \in { rows[i].source : i \in first } |->
            LET mine == { i \in first : rows[i].source = src }
            IN  [Sessions |-> Cardinality(mine),
                 Bounces |-> Cardinality({ i \in mine : rows[i].is_bounce }),
                 Conversions |-> Cardinality({ i \in mine : rows[i].converted })]]

SourcesOutcome(d) ==
    IF IsNone(d) THEN NoDataOutcome("analyze_traffic_sources")
    ELSE [Outcome("analyze_traffic_sources") EXCEPT
            !.ret = [kind |-> "summary_df", by_source |-> SourceSummary(d.rows)]]

AnalyzeTrafficSources ==
    /\ out' = SourcesOutcome(data)
    /\ UNCHANGED <<data, data_file, clock, ticks, seed42, origin, last_gen>>

\* PageViews counted over the first row of each session only
PageViewsOfFirstRows(rows) ==
    [p \in { rows[i].page : i \in FirstRows(rows) } |->
        Cardinality({ i \in FirstRows(rows) : rows[i].page = p })]

\* data['page'].value_counts()
PageViews(rows) ==
    [p \in Column(rows, "page") |->
        Cardinality({ i \in DOMAIN rows : rows[i].page = p })]

\* sort_values(['session_id', 'timestamp']) then groupby('session_id').last():
\* the index of each session's last row (the sort is stable)
LastRows(rows) ==
    { i \in DOMAIN rows : \A j \in DOMAIN rows :
        (j # i /\ rows[j].session_id = rows[i].session_id) =>
            \/ TsLess(rows[j].timestamp, rows[i].timestamp)
            \/ rows[j].timestamp = rows[i].timestamp /\ j < i }

\* last_pages['page'].value_counts()
ExitCounts(rows) ==
    [p \in { rows[i].page : i \in LastRows(rows) } |->
        Cardinality({ i \in LastRows(rows) : rows[i].page = p })]

\* pd.DataFrame({'Exits': .., 'Pageviews': ..}).fillna(0): the union of the two
\* indexes, a count missing on one side filled with 0
ExitRates(rows) ==
    LET exits == ExitCounts(rows)
        views == PageViews(rows)
    IN  [p \in DOMAIN exits \cup DOMAIN views |->
            [Exits |-> IF p \in DOMAIN exits THEN exits[p] ELSE 0,
             Pageviews |-> IF p \in DOMAIN views THEN views[p] ELSE 0]]

PagesOutcome(d) ==
    IF IsNone(d) THEN NoDataOutcome("popular_pages")
    ELSE [Outcome("popular_pages") EXCEPT
            !.ret = [kind |-> "None", exit_rates |-> ExitRates(d.rows)]]

PopularPages ==
    /\ out' = PagesOutcome(data)
    /\ UNCHANGED <<data, data_file, clock, ticks, seed42, origin, last_gen>>

----------------------------------------------------------------------------
(* Environment                                                             *)

\* datetime + timedelta(seconds = 1)
NextSecond(ts) ==
    IF ts.second < 59 THEN [ts EXCEPT !.second = ts.second + 1]
    ELSE [AddMinutes(ts, 1) EXCEPT !.second = 0]

\* time passes between two calls
Tick ==
    /\ ticks < MaxTicks
    /\ ticks' = ticks + 1
    /\ clock' = NextSecond(clock)
    /\ UNCHANGED <<data, data_file, seed42, origin, last_gen, out>>

----------------------------------------------------------------------------
(* Specification                                                           *)

\* the data_file arguments tried; with data_file=None every read fails, as with
\* a missing file
DataFiles == {"traffic.csv"}

SaveNames == {"website_traffic_data.csv"}

Init ==
    /\ data = None
    /\ data_file \in DataFiles
    /\ clock \in StartClocks
    /\ ticks = 0
    /\ seed42 = {}
    /\ origin = "none"
    /\ last_gen = [days |-> 0, visits |-> 0]
    /\ out = Outcome("__init__")

Next ==
    \/ \E days \in DaysInputs : GenerateSampleData(days)
    \/ \E content \in FileContents(data_file) : LoadData(content)
    \/ \E filename \in SaveNames : SaveData(filename)
    \/ BasicMetrics
    \/ \E time_unit \in TimeUnits : TrafficOverTime(time_unit)
    \/ AnalyzeTrafficSources
    \/ PopularPages
    \/ Tick

Spec == Init /\ [][Next]_vars

----------------------------------------------------------------------------
(* Properties                                                              *)

ReportOps == {"basic_metrics", "traffic_over_time", "analyze_traffic_sources",
              "popular_pages"}

\* self.data is the table the latest generate_sample_data built
Generated == origin = "generated" /\ ~IsNone(data)

\* no two of the simulated sessions drew the same session_id
NoCollision == Cardinality(Column(data.rows, "session_id")) = last_gen.visits

SameSession(i, j) == data.rows[i].session_id = data.rows[j].session_id

\* C1: generate_sample_data is deterministic: a call with the same days
\* returns the same rows as the call before it, whatever the clock reads
C1_Deterministic ==
    [][(Generated /\ Generated' /\ last_gen'.days = last_gen.days)
          => data'.rows = data.rows]_vars

\* C2: in a generated table, rows with the same session_id have the same
\* user_id, source, device, country and is_bounce
C2_SessionAttributes ==
    Generated =>
        \A i, j \in DOMAIN data.rows :
            SameSession(i, j) =>
                /\ data.rows[i].user_id = data.rows[j].user_id
                /\ data.rows[i].source = data.rows[j].source
                /\ data.rows[i].device = data.rows[j].device
                /\ data.rows[i].country = data.rows[j].country
                /\ data.rows[i].is_bounce = data.rows[j].is_bounce

\* C3: in a generated table, the rows of a session_id have is_bounce true
\* exactly when that session_id has one row
C3_BounceIffOneRow ==
    Generated =>
        \A i \in DOMAIN data.rows :
            data.rows[i].is_bounce <=>
                Cardinality({ j \in DOMAIN data.rows : SameSession(i, j) }) = 1

\* C4: in a generated table (even one without colliding session ids), if a
\* row of a session has converted true, every row of the session has
C4_ConvertedSessionLevel ==
    (Generated /\ NoCollision) =>
        \A i, j \in DOMAIN data.rows :
            (SameSession(i, j) /\ data.rows[i].converted) => data.rows[j].converted

\* C5: as long as no generate_sample_data call and no successful load_data
\* has happened, a report emits the no-data notice, returns None, raises
\* nothing and leaves the table unset
C5_ReportsWithoutData ==
    (origin = "none" /\ out.op \in ReportOps) =>
        /\ out.notice = NoData
        /\ out.ret = None
        /\ out.raised = ""
        /\ IsNone(data)

C5_Witness ==
    /\ origin = "none"
    /\ out.op = "traffic_over_time"
    /\ out.time_unit = "day_of_week"
    /\ out.notice = NoData
    /\ out.ret = None

\* C6 (as claimed): after a failing load_data the table is unset
C6_LoadFailureUnsets ==
    (out.op = "load_data" /\ ~out.ret.value) => (IsNone(data) /\ out.raised = "")

\* C6 (amended): a failing load_data returns False, raises nothing and leaves
\* the table as it was before the call
C6_LoadFailureKeepsTable ==
    [][\A content \in FileContents(data_file) :
          (LoadData(content) /\ ReadFails(data_file, content)) =>
              /\ data' = data
              /\ out'.ret = [kind |-> "bool", value |-> FALSE]
              /\ out'.raised = ""]_vars

C6_Witness ==
    /\ out.op = "load_data"
    /\ ~out.ret.value
    /\ ~IsNone(data)
    /\ data.rows # <<>>

\* C7: on a table that is set but has no rows, basic_metrics reports "no
\* data" and raises nothing
C7_EmptyTableGraceful ==
    (out.op = "basic_metrics" /\ ~IsNone(data) /\ data.rows = <<>>) =>
        (out.notice = NoData /\ out.raised = "")

\* C8: on a non-empty table, popular_pages divides, for every page, a number
\* of exits between 0 and the page's views by a number of views above 0
C8_ExitRateInRange ==
    (out.op = "popular_pages" /\ ~IsNone(data) /\ data.rows # <<>>) =>
        \A p \in DOMAIN out.ret.exit_rates :
            /\ 0 <= out.ret.exit_rates[p].Exits
            /\ out.ret.exit_rates[p].Exits <= out.ret.exit_rates[p].Pageviews
            /\ out.ret.exit_rates[p].Pageviews > 0

C8_Witness ==
    /\ out.op = "popular_pages"
    /\ ~IsNone(data)
    /\ Cardinality(Column(data.rows, "session_id")) >= 2
    /\ \E p, q \in DOMAIN out.ret.exit_rates :
          /\ out.ret.exit_rates[p].Exits = 0
          /\ out.ret.exit_rates[q].Exits > 0
          /\ out.ret.exit_rates[q].Exits < out.ret.exit_rates[q].Pageviews

\* C9: on a generated table (even one without colliding session ids), the
\* converted sessions analyze_traffic_sources counts, summed over the
\* sources, are the converted sessions basic_metrics counts
C9_ConversionReportsAgree ==
    (Generated /\ NoCollision) =>
        LET by_source == SourceSummary(data.rows)
        IN  SumOver([src \in DOMAIN by_source |-> by_source[src].Conversions],
                    DOMAIN by_source)
              * 100 = Metrics(data.rows).conversion_rate.num

\* the sessions traffic_over_time plotted, summed over the buckets
PlottedTotal == SumOver(out.ret.plotted, DOMAIN out.ret.plotted)

HourlyPlotted ==
    /\ out.op = "traffic_over_time"
    /\ out.time_unit = "hour"
    /\ Generated

\* C10 (as claimed): on a generated table, all rows of a session have the
\* same hour, and the hourly session counts add up to the distinct sessions
C10_OneHourPerSession ==
    HourlyPlotted =>
        /\ \A i, j \in DOMAIN data.rows :
              SameSession(i, j) => data.rows[i].hour = data.rows[j].hour
        /\ PlottedTotal = Cardinality(Column(data.rows, "session_id"))

\* C10 (amended): on a generated table, every row's hour is the hour its
\* session was generated in or the hour after it (midnight after 23), so the
\* hourly session counts add up to at least the distinct sessions and at
\* most twice as many
C10_HourOrNextHour ==
    HourlyPlotted =>
        /\ \A i \in DOMAIN data.rows :
              data.rows[i].hour \in { data.rows[i].session_id[3],
                                      (data.rows[i].session_id[3] + 1) % HoursPerDay }
        /\ DOMAIN out.ret.plotted \subseteq 0..(HoursPerDay - 1)
        /\ PlottedTotal >= Cardinality(Column(data.rows, "session_id"))
        /\ PlottedTotal <= 2 * Cardinality(Column(data.rows, "session_id"))

C10_Witness ==
    /\ HourlyPlotted
    /\ NoCollision
    /\ PlottedTotal > Cardinality(Column(data.rows, "session_id"))
    /\ \E i \in DOMAIN data.rows :
          data.rows[i].hour = 0 /\ data.rows[i].session_id[3] = 23

=============================================================================
